---- MODULE Spec2Model ----
(* Model of py/yubikey.py: the Controller that a host application drives to   *)
(* enumerate YubiKeys, unlock the OATH store, and compute or manage           *)
(* credentials.  The device library (ykman) is the environment: its answers   *)
(* are drawn from small sets, a wrong key or a missing authentication being   *)
(* answered as the OATH applet answers them.                                  *)
EXTENDS Integers, Sequences, FiniteSets, TLC

VARIABLES
    attached,      \* environment: fingerprints get_descriptors() enumerates now
    devKey,        \* environment: per device, the key its OATH store demands
    desc_fps,      \* Controller._desc_fps
    current_desc,  \* Controller._current_desc (NoDesc: None)
    devices,       \* Controller._devices
    current_key,   \* Controller._current_key (NoKey: None)
    key_scope,     \* history: store identity on which current_key was obtained
    settings,      \* Controller.settings['keys'], in memory
    stored,        \* the settings file, as last written
    plugs,         \* number of enumeration changes so far
    forgot,        \* history: the store whose password the last completed call
                   \* set without remember (0: it was another call, or failed)
    refreshed,     \* history: the last refresh_devices call of this process,
                   \* the enumeration it saw and what it returned
    last           \* history: the last public call, its device calls and result

vars == <<attached, devKey, desc_fps, current_desc, devices,
          current_key, key_scope, settings, stored, plugs, forgot,
          refreshed, last>>

----------------------------------------------------------------------------
(* Bounds and input sets *)

MaxPlugs == 1

Devices == {1, 2}
Passwords == {"p", "q"}
CredNames == {"a", "_hidden:b"}

\* Times are Python integers, which have no largest value; the cap of
\* code_to_dict lies beyond the integers TLC computes with.  A time is held as
\* two digits to the base 100000: Big(hi, lo) is hi * 100000 + lo.
Big(hi, lo) == [hi |-> hi, lo |-> lo]

\* n % 30 (100000 % 30 = 10)
BigMod30(n) == ((n.hi % 30) * 10 + n.lo) % 30

\* n - k and n + k for 0 <= k < 100000
BigMinus(n, k) ==
    IF n.lo >= k THEN Big(n.hi, n.lo - k)
    ELSE Big(n.hi - 1, n.lo + 100000 - k)

BigPlus(n, k) ==
    IF n.lo + k < 100000 THEN Big(n.hi, n.lo + k)
    ELSE Big(n.hi + 1, n.lo + k - 100000)

\* min(a, b)
BigMin(a, b) ==
    IF a.hi < b.hi \/ (a.hi = b.hi /\ a.lo <= b.lo) THEN a ELSE b

\* 61, 100005 (its window starts below 100000) and 9999999990, a time in
\* the last half minute below the cap of code_to_dict
Timestamps == {Big(0, 61), Big(1, 5), Big(99999, 99990)}

NoDesc == 0
NoKey == <<>>

----------------------------------------------------------------------------
(* Status words and driver error numbers the code tests for *)

SW_SECURITY_CONDITION_NOT_SATISFIED == 27010
SW_INCORRECT_PARAMETERS == 27264
SW_NO_SPACE == 27268
SW_COMMAND_ABORTED == 28416
SW_NO_SUCH_OBJECT == 27012

ERRNO_WRITE == 3
ERRNO_TIMEOUT == 4
ERRNO_WOULD_BLOCK == 11
ERRNO_OTHER == 2

----------------------------------------------------------------------------
(* Exceptions *)

NoExc == [type |-> "none", sw |-> 0, errno |-> 0, msg |-> ""]

APDUError(sw) ==
    [type |-> "APDUError", sw |-> sw, errno |-> 0, msg |-> "APDU error: SW"]

YkpersError(errno) ==
    [type |-> "YkpersError", sw |-> 0, errno |-> errno, msg |-> "ykpers error"]

FailedOpeningDeviceException ==
    [type |-> "FailedOpeningDeviceException", sw |-> 0, errno |-> 0,
     msg |-> "Failed opening device"]

PyException(msg) == [type |-> "Exception", sw |-> 0, errno |-> 0, msg |-> msg]

AttributeErrorNoDesc ==
    PyException("'NoneType' object has no attribute 'open_device'")

----------------------------------------------------------------------------
(* Result envelopes *)

Success(payload) ==
    [kind |-> "envelope", success |-> TRUE, error_id |-> "",
     payload |-> payload]

Failure(err_id) ==
    [kind |-> "envelope", success |-> FALSE, error_id |-> err_id,
     payload |-> <<>>]

\* a handler that falls off its end returns None, which as_json dumps as null
NullResult ==
    [kind |-> "null", success |-> FALSE, error_id |-> "", payload |-> <<>>]

\* the exception leaves the wrapper and reaches the caller
Raised(exc) ==
    [kind |-> "raise", success |-> FALSE, error_id |-> exc.type,
     payload |-> <<>>]

unknown_failure(exc) == Failure(exc.msg)

\* out: what the wrapped handler did, [ret |-> envelope, exc |-> exception]
\* a wrapper without the last except clause: what is not a device error
\* reaches the caller
catch_error_device_errors_only(out) ==
    IF out.exc = NoExc THEN out.ret ELSE Raised(out.exc)

catch_error(out) ==
    IF out.exc.type = "none" THEN out.ret
    ELSE IF out.exc.type = "YkpersError" THEN
        IF out.exc.errno = ERRNO_WRITE THEN Failure("write error")
        ELSE IF out.exc.errno = ERRNO_TIMEOUT THEN Failure("timeout")
        ELSE unknown_failure(out.exc)
    ELSE IF out.exc.type = "FailedOpeningDeviceException" THEN
        Failure("open_device_failed")
    ELSE IF out.exc.type = "APDUError" THEN
        IF out.exc.sw = SW_SECURITY_CONDITION_NOT_SATISFIED
        THEN Failure("access_denied")
        ELSE Raised(out.exc)
    ELSE IF out.exc.msg = "Incorrect padding" THEN Failure("incorrect_padding")
    ELSE unknown_failure(out.exc)

----------------------------------------------------------------------------
(* Keys and their hex form *)

HexDigits == <<"0", "1", "2", "3", "4", "5", "6", "7",
               "8", "9", "a", "b", "c", "d", "e", "f">>

HexValue(c) == (CHOOSE i \in 1..16 : HexDigits[i] = c) - 1

RECURSIVE b2a_hex(_)
b2a_hex(bytes) ==
    IF bytes = <<>> THEN <<>>
    ELSE <<HexDigits[(Head(bytes) \div 16) + 1],
           HexDigits[(Head(bytes) % 16) + 1]>> \o b2a_hex(Tail(bytes))

\* an _unlock that presents the stored text as it is
a2b_hex_undecoded(hex) == hex

RECURSIVE a2b_hex(_)
a2b_hex(hex) ==
    IF Len(hex) < 2 THEN <<>>
    ELSE <<16 * HexValue(hex[1]) + HexValue(hex[2])>>
         \o a2b_hex(SubSeq(hex, 3, Len(hex)))

\* the store identity a session reports (controller.id)
StoreId(d) == 160 + d

PasswordByte(password) == IF password = "p" THEN 26 ELSE 241

\* derive_key: a deterministic function of the password and the store's salt
derive_key(password, d) == <<PasswordByte(password), StoreId(d)>>

DeviceKeys(d) == {derive_key(p, d) : p \in Passwords}
AllKeys == UNION {DeviceKeys(d) : d \in Devices}

----------------------------------------------------------------------------
(* What the environment may answer: one planned fault per public call *)

NoFault == [at |-> "none", exc |-> NoExc]

OpenFaults ==
    {[at |-> "open", exc |-> FailedOpeningDeviceException]}

\* the controller's constructor selects the applet
SelectFaults == {[at |-> "select", exc |-> APDUError(SW_NO_SUCH_OBJECT)]}

ValidateFaults ==
    {[at |-> "validate", exc |-> APDUError(SW_NO_SUCH_OBJECT)]}

OpFaults(sws) == {[at |-> "op", exc |-> APDUError(sw)] : sw \in sws}

SessionFaults == {NoFault} \cup OpenFaults \cup SelectFaults

ProtectedFaults ==
    SessionFaults \cup ValidateFaults \cup OpFaults({SW_NO_SUCH_OBJECT})

PutFaults ==
    SessionFaults \cup ValidateFaults
    \cup OpFaults({SW_NO_SPACE, SW_COMMAND_ABORTED, SW_NO_SUCH_OBJECT})

\* what the slot driver answers to a challenge
SlotAnswers == {0, ERRNO_WOULD_BLOCK, ERRNO_WRITE, ERRNO_TIMEOUT, ERRNO_OTHER}

\* and to the non-blocking probe of otp_calculate_all
ProbeAnswers == {0, ERRNO_WOULD_BLOCK, ERRNO_WRITE}

----------------------------------------------------------------------------
(* Device sessions *)

Range(f) == {f[i] : i \in DOMAIN f}

EmptyMap == [x \in {} |-> <<>>]

MapPut(m, k, v) == [x \in DOMAIN m \cup {k} |-> IF x = k THEN v ELSE m[x]]

MapDel(m, k) == [x \in DOMAIN m \ {k} |-> m[x]]

Locked(d) == devKey[d] # NoKey

IsHidden(name) == name = "_hidden:b"

\* one device call as the history records it: sw = 0 when it was answered well
Call(name, d, key, exc) ==
    [call |-> name, id |-> StoreId(d), key |-> key,
     sw |-> IF exc.type = "none" THEN 0
            ELSE IF exc.type = "APDUError" THEN exc.sw ELSE 1,
     errno |-> IF exc.type = "YkpersError" THEN exc.errno ELSE 0]

\* _open_oath / _open_otp and the context manager's __enter__.  A handle
\* counts as closed when the code has called close() on it: __exit__ does, and
\* it runs only when __enter__ has returned.
OpenSession(fault) ==
    IF current_desc = NoDesc THEN
        [exc |-> AttributeErrorNoDesc, d |-> NoDesc, calls |-> <<>>,
         opened |-> 0, leaked |-> 0]
    ELSE IF current_desc \notin Range(attached) \/ fault.at = "open" THEN
        [exc |-> FailedOpeningDeviceException, d |-> NoDesc,
         calls |-> <<Call("open_device", current_desc, NoKey,
                          FailedOpeningDeviceException)>>,
         opened |-> 0, leaked |-> 0]
    ELSE IF fault.at = "select" THEN
        [exc |-> fault.exc, d |-> NoDesc,
         calls |-> <<Call("open_device", current_desc, NoKey, NoExc),
                     Call("select", current_desc, NoKey, fault.exc)>>,
         opened |-> 1, leaked |-> 1]
    ELSE
        [exc |-> NoExc, d |-> current_desc,
         calls |-> <<Call("open_device", current_desc, NoKey, NoExc),
                     Call("select", current_desc, NoKey, NoExc)>>,
         opened |-> 1, leaked |-> 0]

\* oath_controller.validate(key) as the device answers it
DeviceValidate(d, key, fault) ==
    LET exc == IF fault.at = "validate" THEN fault.exc
               ELSE IF Locked(d) /\ key = devKey[d] THEN NoExc
               ELSE APDUError(SW_INCORRECT_PARAMETERS)
    IN [exc |-> exc, calls |-> <<Call("validate", d, key, exc)>>,
        authed |-> exc = NoExc]

\* Controller._unlock; the failure envelope of its last branch is its return
\* value, which no caller reads
unlock(d, fault) ==
    IF Locked(d) THEN
        IF current_key # NoKey THEN DeviceValidate(d, current_key, fault)
        ELSE IF StoreId(d) \in DOMAIN settings THEN
            DeviceValidate(d, a2b_hex(settings[StoreId(d)]), fault)
        ELSE [exc |-> NoExc, calls |-> <<>>, authed |-> FALSE]
    ELSE [exc |-> NoExc, calls |-> <<>>, authed |-> TRUE]

\* a call the store answers only to an authenticated session; natural: the
\* store's own answer to an authenticated caller
DeviceCall(name, d, authed, fault, natural) ==
    LET exc == IF fault.at = "op" THEN fault.exc
               ELSE IF ~authed
                    THEN APDUError(SW_SECURITY_CONDITION_NOT_SATISFIED)
                    ELSE natural
    IN [exc |-> exc, calls |-> <<Call(name, d, NoKey, exc)>>]

\* the place of a device call among the places a fault is planned at
PlaceOf(call) ==
    IF call = "open_device" THEN "open"
    ELSE IF call \in {"select", "validate"} THEN call
    ELSE "op"

\* the planned fault is the failure the call ended with
Fired(fault, calls) ==
    \/ fault.at = "none"
    \/ /\ calls # <<>>
       /\ calls[Len(calls)].sw # 0
       /\ PlaceOf(calls[Len(calls)].call) = fault.at

\* with self._open_oath() as c: self._unlock(c); c.<name>(...)
\* done: the call went through; the handle is closed by __exit__ whenever
\* __enter__ had returned
Protected(name, fault, natural) ==
    LET s == OpenSession(fault) IN
    IF s.exc # NoExc THEN
        [exc |-> s.exc, calls |-> s.calls, d |-> NoDesc, done |-> FALSE,
         opened |-> s.opened, leaked |-> s.leaked]
    ELSE LET u == unlock(s.d, fault) IN
    IF u.exc # NoExc THEN
        [exc |-> u.exc, calls |-> s.calls \o u.calls, d |-> s.d,
         done |-> FALSE, opened |-> 1, leaked |-> 0]
    ELSE LET c == DeviceCall(name, s.d, u.authed, fault, natural) IN
        [exc |-> c.exc, calls |-> s.calls \o u.calls \o c.calls, d |-> s.d,
         done |-> c.exc = NoExc, opened |-> 1, leaked |-> 0]

----------------------------------------------------------------------------
(* The history of the last public call *)

NoCall ==
    [op |-> "none", remember |-> FALSE, fault |-> "none", sid |-> 0,
     result |-> NullResult, cause |-> "", calls |-> <<>>, opened |-> 0,
     leaked |-> 0, maxOpen |-> 0, args |-> <<>>]

\* out: what the handler did, [ret, exc]; the caller gets catch_error(out).
\* cause: the message text of the exception that reached the wrapper.
\* sid: the identity of the store the session was opened on (0: no session).
\* leaked: handles the call opened and did not close; maxOpen: the most it
\* held open at once.
Record(op, remember, fault, d, out, calls, opened, leaked, maxOpen) ==
    LET sid == IF d = NoDesc THEN 0 ELSE StoreId(d) IN
    [op |-> op, remember |-> remember, fault |-> fault.at, sid |-> sid,
     result |-> catch_error(out), cause |-> out.exc.msg, calls |-> calls,
     opened |-> opened, leaked |-> leaked, maxOpen |-> maxOpen,
     args |-> <<>>]

\* a call of one session: at most one handle is open at a time
SessionRecord(op, remember, fault, r, out) ==
    Record(op, remember, fault, r.d, out, r.calls, r.opened, r.leaked,
           r.opened)

\* the answer of a store that carries the call out
NaturalOk == NoExc

\* the record of a call together with the arguments it was given and, for a
\* listing, what the device held
WithArgs(rec, args) == [rec EXCEPT !.args = args]

\* no call is in progress: the caller has taken the last result
Idle == last.op = "none"

\* refresh_devices has not been called on this Controller
NotRefreshed == [called |-> FALSE, fps |-> <<>>, result |-> NullResult]

----------------------------------------------------------------------------
(* The environment *)

AttachOptions == {<<>>, <<1>>, <<2>>, <<1, 2>>}

\* a YubiKey is inserted or removed
DeviceChange ==
    /\ Idle
    /\ plugs < MaxPlugs
    /\ \E a \in AttachOptions \ {attached} : attached' = a
    /\ plugs' = plugs + 1
    /\ UNCHANGED <<devKey, desc_fps, current_desc, devices, current_key,
                   key_scope, settings, stored, forgot,
                   refreshed, last>>

\* the host application is started again: init() builds a new Controller,
\* whose Settings are read from the file
Restart ==
    /\ Idle
    /\ desc_fps # <<>> \/ current_key # NoKey \/ refreshed.called
    /\ desc_fps' = <<>>
    /\ current_desc' = NoDesc
    /\ devices' = <<>>
    /\ current_key' = NoKey
    /\ key_scope' = 0
    /\ settings' = stored
    /\ refreshed' = NotRefreshed
    /\ UNCHANGED <<attached, devKey, stored, plugs, forgot, last>>

\* the caller takes the result of the call
Return ==
    /\ ~Idle
    /\ last' = NoCall
    /\ forgot' = IF /\ last.op = "ccid_set_password"
                    /\ ~last.remember
                    /\ last.result.success
                 THEN last.sid ELSE 0
    /\ UNCHANGED <<attached, devKey, desc_fps, current_desc, devices,
                   current_key, key_scope, settings, stored, plugs,
                   refreshed>>

----------------------------------------------------------------------------
(* Device Registry *)

DeviceEntry(fp) ==
    [name |-> "YubiKey", version |-> "4.3.7", serial |-> 1000 + fp,
     fingerprint |-> fp]

\* a refresh_devices that rebuilds the device list on every call
DescsChangedAlways(old_desc_fps, new_desc_fps) == TRUE

\* refresh_devices: descs_changed = (old_desc_fps != self._desc_fps)
DescsChanged(old_desc_fps, new_desc_fps) == old_desc_fps # new_desc_fps

\* Controller._update_desc_fps followed by the rebuild of refresh_devices.
\* failAt: the descriptor whose open_device fails (0: none does).  The loop
\* calls close() on no handle it opens.
RefreshDevices ==
    /\ Idle
    /\ \E failAt \in 0..Len(attached) :
        LET descs_changed == DescsChanged(desc_fps, attached)
            n == IF failAt = 0 THEN Len(attached) ELSE failAt - 1
            rebuilt == [i \in 1..n |-> DeviceEntry(attached[i])]
            exc == IF descs_changed /\ failAt # 0
                   THEN FailedOpeningDeviceException ELSE NoExc
            newDevices == IF descs_changed THEN rebuilt ELSE devices
            opened == IF descs_changed THEN n ELSE 0
            calls == IF descs_changed
                     THEN [i \in 1..n |->
                             Call("open_device", attached[i], NoKey, NoExc)]
                          \o (IF exc = NoExc THEN <<>>
                              ELSE <<Call("open_device", attached[failAt],
                                          NoKey, exc)>>)
                     ELSE <<>>
            out == [ret |-> Success(newDevices), exc |-> exc]
        IN /\ descs_changed \/ failAt = 0
           /\ desc_fps' = attached
           /\ current_desc' = IF attached # <<>> THEN Head(attached) ELSE NoDesc
           /\ devices' = newDevices
           /\ last' = Record("refresh_devices", FALSE,
                             [at |-> IF exc = NoExc THEN "none" ELSE "open"],
                             NoDesc, out, calls, opened, opened, opened)
           /\ refreshed' = [called |-> TRUE, fps |-> attached,
                            result |-> catch_error(out)]
           /\ UNCHANGED <<attached, devKey, current_key, key_scope, settings,
                          stored, plugs, forgot>>

----------------------------------------------------------------------------
(* Credential Gateway, store path *)

\* what the store may hold, in its own order
StoreContents == {<<>>, <<"a">>, <<"_hidden:b">>, <<"a", "_hidden:b">>,
                  <<"_hidden:b", "a">>}

pair_to_dict(cred) == [credential |-> cred, code |-> "code"]

\* a listing without the test of is_hidden
VisibleEntriesUnfiltered(entries) ==
    [i \in 1..Len(entries) |-> pair_to_dict(entries[i])]

\* the list comprehension of ccid_calculate_all
VisibleEntries(entries) ==
    LET NotHidden(cred) == ~IsHidden(cred)
        visible == SelectSeq(entries, NotHidden)
    IN [i \in 1..Len(visible) |-> pair_to_dict(visible[i])]

\* held: what the device's store holds when it is asked
CcidCalculateAll ==
    /\ Idle
    /\ \E fault \in ProtectedFaults, held \in StoreContents :
        LET r == Protected("calculate_all", fault, NaturalOk)
            ret == Success(VisibleEntries(held))
        IN /\ Fired(fault, r.calls)
           /\ r.done \/ held = <<>>
           /\ last' = WithArgs(
                          SessionRecord("ccid_calculate_all", FALSE, fault, r,
                                        [ret |-> ret, exc |-> r.exc]),
                          [held |-> held])
           /\ UNCHANGED <<attached, devKey, desc_fps, current_desc, devices,
                          current_key, key_scope, settings, stored, plugs,
                          forgot, refreshed>>

\* the store holds every credential of CredNames and no other
CcidCalculate ==
    /\ Idle
    /\ \E fault \in ProtectedFaults, cred \in CredNames \cup {"missing"} :
        LET Natural == IF cred \in CredNames THEN NoExc
                       ELSE APDUError(SW_NO_SUCH_OBJECT)
            r == Protected("calculate", fault, Natural)
            ret == Success(<<pair_to_dict(cred)>>)
        IN /\ Fired(fault, r.calls)
           /\ last' = WithArgs(
                          SessionRecord("ccid_calculate", FALSE, fault, r,
                                        [ret |-> ret, exc |-> r.exc]),
                          [credential |-> cred])
           /\ UNCHANGED <<attached, devKey, desc_fps, current_desc, devices,
                          current_key, key_scope, settings, stored, plugs,
                          forgot, refreshed>>

\* an except clause that knows the status "no space" alone
AddCredentialCaughtNoSpaceOnly(exc) ==
    IF exc.type = "APDUError" /\ exc.sw = SW_NO_SPACE
    THEN [ret |-> Failure("no_space"), exc |-> NoExc]
    ELSE [ret |-> Success(<<>>), exc |-> exc]

\* the except clause of ccid_add_credential
AddCredentialCaught(exc) ==
    IF exc.type = "APDUError" /\ exc.sw \in {SW_NO_SPACE, SW_COMMAND_ABORTED}
    THEN [ret |-> Failure("no_space"), exc |-> NoExc]
    ELSE [ret |-> Success(<<>>), exc |-> exc]

\* padded: whether parse_b32_key accepts the secret
CcidAddCredential ==
    /\ Idle
    /\ \E fault \in PutFaults, padded \in BOOLEAN :
        LET r == IF padded THEN Protected("put", fault, NaturalOk)
                 ELSE [exc |-> PyException("Incorrect padding"),
                       calls |-> <<>>, d |-> NoDesc, done |-> FALSE,
                       opened |-> 0, leaked |-> 0]
            out == IF r.d = NoDesc THEN [ret |-> Success(<<>>), exc |-> r.exc]
                   ELSE AddCredentialCaught(r.exc)
        IN /\ Fired(fault, r.calls)
           /\ padded \/ fault = NoFault
           /\ last' = SessionRecord("ccid_add_credential", FALSE, fault, r,
                                    out)
           /\ UNCHANGED <<attached, devKey, desc_fps, current_desc, devices,
                          current_key, key_scope, settings, stored, plugs,
                          forgot, refreshed>>

CcidDeleteCredential ==
    /\ Idle
    /\ \E fault \in ProtectedFaults, cred \in CredNames \cup {"missing"} :
        LET Natural == IF cred \in CredNames THEN NoExc
                       ELSE APDUError(SW_NO_SUCH_OBJECT)
            r == Protected("delete", fault, Natural)
        IN /\ Fired(fault, r.calls)
           /\ last' = WithArgs(
                          SessionRecord("ccid_delete_credential", FALSE,
                                        fault, r, [ret |-> Success(<<>>),
                                                   exc |-> r.exc]),
                          [credential |-> cred])
           /\ UNCHANGED <<attached, devKey, desc_fps, current_desc, devices,
                          current_key, key_scope, settings, stored, plugs,
                          forgot, refreshed>>

\* a ccid_reset that calls _unlock first, as the other handlers do
CcidResetUnlocksFirst ==
    /\ Idle
    /\ \E fault \in ProtectedFaults :
        LET r == Protected("reset", fault, NaturalOk)
        IN /\ Fired(fault, r.calls)
           /\ devKey' = IF r.done THEN [devKey EXCEPT ![r.d] = NoKey]
                        ELSE devKey
           /\ last' = WithArgs(
                          SessionRecord("ccid_reset", FALSE, fault, r,
                                        [ret |-> Success(<<>>),
                                         exc |-> r.exc]),
                          [locked |-> r.d # NoDesc /\ Locked(r.d)])
           /\ UNCHANGED <<attached, desc_fps, current_desc, devices,
                          current_key, key_scope, settings, stored, plugs,
                          forgot, refreshed>>

\* ccid_reset: the session is opened and reset is called, nothing else.
\* locked: whether the store was locked when the session was opened
CcidReset ==
    /\ Idle
    /\ \E fault \in SessionFaults \cup OpFaults({SW_NO_SUCH_OBJECT}) :
        LET s == OpenSession(fault)
            c == DeviceCall("reset", s.d, TRUE, fault, NoExc)
            exc == IF s.exc # NoExc THEN s.exc ELSE c.exc
            calls == IF s.exc # NoExc THEN s.calls ELSE s.calls \o c.calls
            r == [exc |-> exc, calls |-> calls, d |-> s.d,
                  opened |-> s.opened, leaked |-> s.leaked]
        IN /\ Fired(fault, calls)
           /\ devKey' = IF exc = NoExc THEN [devKey EXCEPT ![s.d] = NoKey]
                        ELSE devKey
           /\ last' = WithArgs(
                          SessionRecord("ccid_reset", FALSE, fault, r,
                                        [ret |-> Success(<<>>), exc |-> exc]),
                          [locked |-> s.d # NoDesc /\ Locked(s.d)])
           /\ UNCHANGED <<attached, desc_fps, current_desc, devices,
                          current_key, key_scope, settings, stored, plugs,
                          forgot, refreshed>>

----------------------------------------------------------------------------
(* Unlock Key Manager *)

\* a ccid_validate that stores the key whether or not remember was given
ValidateRememberAlways(keys, id, key, remember) ==
    MapPut(keys, id, b2a_hex(key))

\* ccid_validate, the remember branch: keys[oath_controller.id] = hex of key
ValidateRemember(keys, id, key, remember) ==
    IF remember THEN MapPut(keys, id, b2a_hex(key)) ELSE keys

\* ccid_validate, the except clause: any other status word falls off the end
ValidateCaught(exc) ==
    IF exc.type = "APDUError" THEN
        IF exc.sw = SW_INCORRECT_PARAMETERS
        THEN [ret |-> Failure("validate_failed"), exc |-> NoExc]
        ELSE [ret |-> NullResult, exc |-> NoExc]
    ELSE [ret |-> Success(<<>>), exc |-> exc]

\* a ccid_validate that caches the key before the device has answered
ValidatedKeyEarly(key, exc) == key

\* ccid_validate, the assignment after validate: the key is cached only when
\* validate returned
ValidatedKey(key, exc) == IF exc = NoExc THEN key ELSE current_key

ValidateFaultPlans ==
    SessionFaults \cup ValidateFaults
    \cup {[at |-> "validate", exc |-> PyException("Card connection lost")]}

CcidValidate ==
    /\ Idle
    /\ \E fault \in ValidateFaultPlans, password \in Passwords,
       remember \in BOOLEAN :
        LET s == OpenSession(fault)
            key == derive_key(password, s.d)
            v == DeviceValidate(s.d, key, fault)
            exc == IF s.exc # NoExc THEN s.exc ELSE v.exc
            r == [exc |-> exc, d |-> s.d, opened |-> s.opened,
                  leaked |-> s.leaked,
                  calls |-> IF s.exc # NoExc THEN s.calls
                            ELSE s.calls \o v.calls]
            out == IF s.exc # NoExc
                   THEN [ret |-> Success(<<>>), exc |-> s.exc]
                   ELSE ValidateCaught(v.exc)
            accepted == exc = NoExc
        IN /\ Fired(fault, r.calls)
           /\ current_key' = IF s.exc # NoExc THEN current_key
                             ELSE ValidatedKey(key, v.exc)
           /\ key_scope' = IF current_key' # current_key \/ accepted
                           THEN StoreId(current_desc) ELSE key_scope
           /\ settings' = IF accepted
                          THEN ValidateRemember(settings, StoreId(s.d), key,
                                                remember)
                          ELSE settings
           /\ stored' = IF accepted /\ remember THEN settings' ELSE stored
           /\ last' = SessionRecord("ccid_validate", remember, fault, r,
                                    out)
           /\ UNCHANGED <<attached, devKey, desc_fps, current_desc, devices,
                          plugs, forgot, refreshed>>

\* a ccid_set_password that leaves a stale stored key in place
SetPasswordKeysKeepsStale(keys, id, key, remember) ==
    IF remember THEN MapPut(keys, id, b2a_hex(key)) ELSE keys

\* ccid_set_password, after the device took the new password: remember stores
\* the key, otherwise a stored key of this store is deleted
SetPasswordKeys(keys, id, key, remember) ==
    IF remember THEN MapPut(keys, id, b2a_hex(key))
    ELSE IF id \in DOMAIN keys THEN MapDel(keys, id)
    ELSE keys

CcidSetPassword ==
    /\ Idle
    /\ \E fault \in ProtectedFaults, new_password \in Passwords,
       remember \in BOOLEAN :
        LET r == Protected("set_password", fault, NaturalOk)
            key == derive_key(new_password, r.d)
        IN /\ Fired(fault, r.calls)
           /\ devKey' = IF r.done THEN [devKey EXCEPT ![r.d] = key]
                        ELSE devKey
           /\ current_key' = IF r.done THEN key ELSE current_key
           /\ key_scope' = IF r.done THEN StoreId(r.d) ELSE key_scope
           /\ settings' = IF r.done
                          THEN SetPasswordKeys(settings, StoreId(r.d), key,
                                               remember)
                          ELSE settings
           /\ stored' = IF r.done THEN settings' ELSE stored
           /\ last' = SessionRecord("ccid_set_password", remember, fault, r,
                          [ret |-> Success(<<>>), exc |-> r.exc])
           /\ UNCHANGED <<attached, desc_fps, current_desc, devices, plugs,
                          forgot, refreshed>>

----------------------------------------------------------------------------
(* Credential Gateway, slot path *)

Code(value, valid_from, valid_to) ==
    [value |-> value, valid_from |-> valid_from, valid_to |-> valid_to]

\* 9999999999
ValidToCap == Big(99999, 99999)

\* a code_to_dict that passes valid_to on as it is
code_to_dict_uncapped(code) ==
    IF code = <<>> THEN <<>>
    ELSE <<[value |-> code[1].value, valid_from |-> code[1].valid_from,
            valid_to |-> code[1].valid_to]>>

\* code_to_dict: None stays None (an empty sequence here) and valid_to is
\* min(valid_to, 9999999999)
code_to_dict(code) ==
    IF code = <<>> THEN <<>>
    ELSE <<[value |-> code[1].value, valid_from |-> code[1].valid_from,
            valid_to |-> BigMin(code[1].valid_to, ValidToCap)]>>

SlotName(slot) == IF slot = 1 THEN "Slot 1" ELSE "Slot 2"

\* a probe that takes every driver error for a wait for touch
otp_get_code_or_touch_any_errno(slot, answer, fault) ==
    LET s == OpenSession(fault)
        asked == IF s.exc # NoExc THEN <<>>
                 ELSE <<Call(SlotName(slot), s.d, NoKey,
                             IF answer = 0 THEN NoExc
                             ELSE YkpersError(answer))>>
    IN [exc |-> s.exc,
        code |-> IF s.exc = NoExc /\ answer = 0 THEN <<"123456">> ELSE <<>>,
        touch |-> s.exc = NoExc /\ answer # 0,
        calls |-> s.calls \o asked, opened |-> s.opened, d |-> s.d]

\* Controller._otp_get_code_or_touch: answer is what the driver says to the
\* non-blocking challenge, 0 for a code and an error number otherwise
otp_get_code_or_touch(slot, answer, fault) ==
    LET s == OpenSession(fault)
        exc == IF s.exc # NoExc THEN s.exc
               ELSE IF answer \in {0, ERRNO_WOULD_BLOCK} THEN NoExc
               ELSE YkpersError(answer)
        asked == IF s.exc # NoExc THEN <<>>
                 ELSE <<Call(SlotName(slot), s.d, NoKey,
                             IF answer = 0 THEN NoExc
                             ELSE YkpersError(answer))>>
    IN [exc |-> exc,
        code |-> IF s.exc = NoExc /\ answer = 0 THEN <<"123456">> ELSE <<>>,
        touch |-> s.exc = NoExc /\ answer = ERRNO_WOULD_BLOCK,
        calls |-> s.calls \o asked, opened |-> s.opened, d |-> s.d]

\* an entry built without the test of code: a Code is made of whatever the
\* probe left
SlotEntryWithoutTest(slot, probe, valid_from, valid_to) ==
    [credential |-> [key |-> SlotName(slot), touch |-> probe.touch],
     code |-> code_to_dict(<<Code(probe.code, valid_from, valid_to)>>)]

\* one entry of otp_calculate_all
SlotEntry(slot, probe, valid_from, valid_to) ==
    [credential |-> [key |-> SlotName(slot), touch |-> probe.touch],
     code |-> IF probe.code # <<>>
              THEN code_to_dict(<<Code(probe.code[1], valid_from, valid_to)>>)
              ELSE <<>>]

OtpFaults == {NoFault} \cup OpenFaults

OtpCalculateAll ==
    /\ Idle
    /\ \E slot1_in_use \in BOOLEAN, slot2_in_use \in BOOLEAN,
          timestamp \in Timestamps :
       \E a1 \in IF slot1_in_use THEN ProbeAnswers ELSE {0},
          fault \in IF slot1_in_use \/ slot2_in_use
                    THEN OtpFaults ELSE {NoFault} :
       \E a2 \in IF slot2_in_use
                    /\ ~(slot1_in_use
                         /\ otp_get_code_or_touch(1, a1, fault).exc # NoExc)
                 THEN ProbeAnswers ELSE {0} :
        LET valid_from == BigMinus(timestamp, BigMod30(timestamp))
            valid_to == BigPlus(valid_from, 30)
            p1 == otp_get_code_or_touch(1, a1, fault)
            p2 == otp_get_code_or_touch(2, a2, fault)
            failed1 == slot1_in_use /\ p1.exc # NoExc
            second == slot2_in_use /\ ~failed1
            exc == IF failed1 THEN p1.exc
                   ELSE IF second THEN p2.exc ELSE NoExc
            entries ==
                (IF slot1_in_use
                 THEN <<SlotEntry(1, p1, valid_from, valid_to)>> ELSE <<>>)
                \o (IF slot2_in_use
                    THEN <<SlotEntry(2, p2, valid_from, valid_to)>> ELSE <<>>)
            calls == (IF slot1_in_use THEN p1.calls ELSE <<>>)
                     \o (IF second THEN p2.calls ELSE <<>>)
            opened == (IF slot1_in_use THEN p1.opened ELSE 0)
                      + (IF second THEN p2.opened ELSE 0)
        IN /\ Fired(fault, calls)
           /\ last' = WithArgs(
                          Record("otp_calculate_all", FALSE, fault,
                                 IF slot1_in_use THEN p1.d
                                 ELSE IF second THEN p2.d ELSE NoDesc,
                                 [ret |-> Success(entries), exc |-> exc],
                                 calls, opened, 0,
                                 IF opened > 0 THEN 1 ELSE 0),
                          [slot1_in_use |-> slot1_in_use,
                           slot2_in_use |-> slot2_in_use,
                           timestamp |-> timestamp])
           /\ UNCHANGED <<attached, devKey, desc_fps, current_desc, devices,
                          current_key, key_scope, settings, stored, plugs,
                          forgot, refreshed>>

\* otp_calculate waits for the touch: the driver answers with a code or fails
OtpCalculate ==
    /\ Idle
    /\ \E slot \in {1, 2}, timestamp \in Timestamps,
       answer \in SlotAnswers \ {ERRNO_WOULD_BLOCK}, fault \in OtpFaults :
        LET valid_from == BigMinus(timestamp, BigMod30(timestamp))
            valid_to == BigPlus(valid_from, 30)
            s == OpenSession(fault)
            exc == IF s.exc # NoExc THEN s.exc
                   ELSE IF answer = 0 THEN NoExc ELSE YkpersError(answer)
            calls == IF s.exc # NoExc THEN s.calls
                     ELSE s.calls \o <<Call(SlotName(slot), s.d, NoKey, exc)>>
            ret == Success(<<[credential |-> SlotName(slot),
                              code |-> code_to_dict(
                                  <<Code("123456", valid_from, valid_to)>>)]>>)
        IN /\ Fired(fault, calls)
           /\ s.exc = NoExc \/ answer = 0
           /\ last' = WithArgs(
                          Record("otp_calculate", FALSE, fault, s.d,
                                 [ret |-> ret, exc |-> exc],
                                 calls, s.opened, 0, s.opened),
                          [slot |-> slot, timestamp |-> timestamp])
           /\ UNCHANGED <<attached, devKey, desc_fps, current_desc, devices,
                          current_key, key_scope, settings, stored, plugs,
                          forgot, refreshed>>

----------------------------------------------------------------------------
(* QR Import Adapter *)

Screenshots == {"bad_base64", "no_symbol", "bad_uri", "symbol"}

\* parse_qr: b64decode, then the first symbol found, if any, is decoded
ParseQr ==
    /\ Idle
    /\ \E screenshot \in Screenshots :
        LET exc == IF screenshot = "bad_base64"
                   THEN PyException("Incorrect padding")
                   ELSE IF screenshot = "bad_uri"
                   THEN PyException("Invalid URI scheme")
                   ELSE NoExc
            ret == IF screenshot = "symbol"
                   THEN Success(<<[name |-> "a", secret |-> "MFRGGZDF"]>>)
                   ELSE Failure("no_credential_found")
        IN /\ last' = Record("parse_qr", FALSE, NoFault, NoDesc,
                             [ret |-> ret, exc |-> exc],
                             <<>>, 0, 0, 0)
           /\ UNCHANGED <<attached, devKey, desc_fps, current_desc, devices,
                          current_key, key_scope, settings, stored, plugs,
                          forgot, refreshed>>

----------------------------------------------------------------------------
(* The controller and its environment *)

Init ==
    /\ attached \in AttachOptions
    /\ devKey \in {k \in [Devices -> {NoKey} \cup AllKeys] :
                     \A d \in Devices : k[d] \in {NoKey} \cup DeviceKeys(d)}
    /\ desc_fps = <<>>
    /\ current_desc = NoDesc
    /\ devices = <<>>
    /\ current_key = NoKey
    /\ key_scope = 0
    /\ settings = EmptyMap
    /\ stored = EmptyMap
    /\ plugs = 0
    /\ forgot = 0
    /\ refreshed = NotRefreshed
    /\ last = NoCall

Next ==
    \/ DeviceChange
    \/ Restart
    \/ Return
    \/ RefreshDevices
    \/ CcidCalculateAll
    \/ CcidCalculate
    \/ CcidAddCredential
    \/ CcidDeleteCredential
    \/ CcidReset
    \/ CcidValidate
    \/ CcidSetPassword
    \/ OtpCalculateAll
    \/ OtpCalculate
    \/ ParseQr

Spec == Init /\ [][Next]_vars

----------------------------------------------------------------------------
(* Properties *)

ProtectedOps == {"ccid_calculate_all", "ccid_calculate", "ccid_add_credential",
                 "ccid_delete_credential", "ccid_set_password"}

ProtectedCalls == {"calculate_all", "calculate", "put", "delete",
                   "set_password"}

SessionOps == ProtectedOps \cup {"ccid_validate", "ccid_reset",
                                 "otp_calculate_all", "otp_calculate"}

Failed(rec) == rec.result.kind = "envelope" /\ ~rec.result.success

Succeeded(rec) == rec.result.kind = "envelope" /\ rec.result.success

\* the device calls of rec that are among names
CallsOf(rec, names) == {i \in DOMAIN rec.calls : rec.calls[i].call \in names}

\* C1: a protected operation on a locked store, with no key cached and none
\* stored for the store's identity, returns the failure failed_to_unlock_key
\* and never issues its protected device call (the device answering as the
\* applet does, no fault planned).
C1_NoKeyFailsToUnlock ==
    [][(/\ last'.op \in ProtectedOps
        /\ last'.sid # 0
        /\ last'.fault = "none"
        /\ Locked(current_desc)
        /\ current_key = NoKey
        /\ StoreId(current_desc) \notin DOMAIN settings
        /\ StoreId(current_desc) \notin DOMAIN stored)
       => /\ last'.result = Failure("failed_to_unlock_key")
          /\ CallsOf(last', ProtectedCalls) = {}]_vars

\* C2: every public call returns an envelope with success true or false, and
\* an error_id when false; no exception reaches the caller, no result is null.
C2_AlwaysEnvelope ==
    ~Idle => /\ last.result.kind = "envelope"
             /\ ~last.result.success => last.result.error_id # ""

FixedErrorIds == {"open_device_failed", "access_denied",
                  "failed_to_unlock_key", "validate_failed", "no_space",
                  "write error", "timeout", "incorrect_padding",
                  "no_credential_found"}

\* C3: the error_id of a failure envelope is one of the fixed identifiers, or
\* a generic one; it is never the message text of the exception behind it.
C3_StableErrorId ==
    (~Idle /\ Failed(last)) =>
        \/ last.result.error_id \in FixedErrorIds
        \/ last.result.error_id # last.cause

\* C4: when a ccid_* or otp_* call returns, on whatever path, every device
\* handle it opened has been closed.
C4_HandlesClosed ==
    (~Idle /\ last.op \in SessionOps) => last.leaked = 0

\* C5: refresh_devices closes each handle it opens for the metadata: none is
\* left open when it returns, and never are two open at once.
C5_RefreshClosesHandles ==
    last.op = "refresh_devices" => last.leaked = 0 /\ last.maxOpen <= 1

\* C6: a cached key is presented only to the store it was obtained on.
C6_CachedKeyStaysOnItsStore ==
    [][\A i \in DOMAIN last'.calls :
         (/\ last'.op \in ProtectedOps
          /\ last'.calls[i].call = "validate"
          /\ current_key # NoKey
          /\ last'.calls[i].key = current_key)
         => key_scope = last'.calls[i].id]_vars

\* C7: when the device rejects the cached key of a locked store, unlock goes
\* on to the key stored for the store's identity, and with that key absent or
\* rejected as well the call returns the failure failed_to_unlock_key.
C7_RejectedCachedKeyFallsBack ==
    [][(/\ last'.op \in ProtectedOps
        /\ last'.sid # 0
        /\ last'.fault = "none"
        /\ Locked(current_desc)
        /\ current_key # NoKey
        /\ current_key # devKey[current_desc])
       => LET id == StoreId(current_desc) IN
          /\ id \in DOMAIN settings =>
                \E i \in CallsOf(last', {"validate"}) :
                    last'.calls[i].key = a2b_hex(settings[id])
          /\ (\/ id \notin DOMAIN settings
              \/ a2b_hex(settings[id]) # devKey[current_desc])
             => last'.result = Failure("failed_to_unlock_key")]_vars

\* C8: the stored key mapping changes only so: a successful ccid_validate or
\* ccid_set_password with remember sets the entry of the session's store to
\* the hex of the new current key; a successful ccid_set_password without
\* remember removes that entry; every other step leaves the mapping alone;
\* entries of other stores never change.
C8_StoredKeysChangeOnlyOnRequest ==
    [][LET id == last'.sid
           sets == /\ Succeeded(last')
                   /\ last'.remember
                   /\ last'.op \in {"ccid_validate", "ccid_set_password"}
           removes == /\ Succeeded(last')
                      /\ ~last'.remember
                      /\ last'.op = "ccid_set_password"
       IN /\ sets => /\ DOMAIN stored' = DOMAIN stored \cup {id}
                     /\ stored'[id] = b2a_hex(current_key')
                     /\ a2b_hex(stored'[id]) = current_key'
          /\ removes => DOMAIN stored' = DOMAIN stored \ {id}
          /\ (~sets /\ ~removes) => stored' = stored
          /\ \A o \in (DOMAIN stored \cup DOMAIN stored') \ {id} :
                /\ o \in DOMAIN stored
                /\ o \in DOMAIN stored'
                /\ stored'[o] = stored[o]]_vars

\* a key was stored with remember on one store while another store's entry
\* stayed as it was
C8_Witness ==
    /\ last.op = "ccid_validate"
    /\ last.remember
    /\ Succeeded(last)
    /\ Cardinality(DOMAIN stored) = 2
    /\ stored[last.sid] = b2a_hex(current_key)

\* C9: a successful ccid_set_password without remember leaves no stored key
\* for the store, and the same call made again right after it leaves the
\* stored mapping as the first call left it.
C9_ForgetIsIdempotent ==
    [][(last'.op = "ccid_set_password" /\ ~last'.remember)
       => /\ Succeeded(last') => last'.sid \notin DOMAIN stored'
          /\ (forgot # 0 /\ last'.sid \in {0, forgot}) => stored' = stored]_vars

\* the second of two successive calls without remember on one store
C9_Witness ==
    /\ last.op = "ccid_set_password"
    /\ ~last.remember
    /\ Succeeded(last)
    /\ forgot = last.sid

\* C10: ccid_validate with a key the locked store rejects returns the failure
\* validate_failed and changes neither the cached key nor the stored mapping;
\* the cached key changes only to a key the device has accepted.
C10_RejectedValidateChangesNothing ==
    [][last'.op = "ccid_validate"
       => /\ (/\ last'.sid # 0
              /\ last'.fault = "none"
              /\ Locked(current_desc)
              /\ \E i \in CallsOf(last', {"validate"}) :
                    last'.calls[i].key # devKey[current_desc])
             => /\ last'.result = Failure("validate_failed")
                /\ current_key' = current_key
                /\ settings' = settings
                /\ stored' = stored
          /\ current_key' # current_key
             => /\ Succeeded(last')
                /\ \E i \in CallsOf(last', {"validate"}) :
                      /\ last'.calls[i].sw = 0
                      /\ last'.calls[i].key = current_key']_vars

\* a wrong password was refused while a key was cached
C10_Witness ==
    /\ last.op = "ccid_validate"
    /\ last.fault = "none"
    /\ last.result = Failure("validate_failed")
    /\ current_key # NoKey

NeedsDevice(rec) ==
    /\ rec.op \in SessionOps
    /\ ~(/\ rec.op = "otp_calculate_all"
         /\ ~rec.args.slot1_in_use
         /\ ~rec.args.slot2_in_use)

\* C12, as stated: after refresh_devices has enumerated no device the current
\* descriptor is absent, and every ccid_* and otp_* operation called before
\* the next refresh_devices returns a failure envelope, opens no session and
\* enumerates nothing.
C12_NoDeviceEveryOperationFails ==
    [][/\ (last'.op = "refresh_devices" /\ attached = <<>>)
          => current_desc' = NoDesc
       /\ (/\ last'.op \in SessionOps
           /\ refreshed.called
           /\ refreshed.fps = <<>>)
          => /\ Failed(last')
             /\ last'.opened = 0
             /\ last'.calls = <<>>
             /\ desc_fps' = desc_fps
             /\ current_desc' = current_desc
             /\ devices' = devices]_vars

\* C12, amended: after refresh_devices has enumerated no device the current
\* descriptor is absent, and before the next refresh_devices no ccid_* or
\* otp_* operation opens a session or enumerates, and each of them that needs
\* a device (all but otp_calculate_all with no slot in use) returns a failure
\* envelope.
C12_NoDeviceOperationsNeedingOneFail ==
    [][/\ (last'.op = "refresh_devices" /\ attached = <<>>)
          => current_desc' = NoDesc
       /\ (/\ last'.op \in SessionOps
           /\ refreshed.called
           /\ refreshed.fps = <<>>)
          => /\ NeedsDevice(last') => Failed(last')
             /\ last'.opened = 0
             /\ last'.calls = <<>>
             /\ desc_fps' = desc_fps
             /\ current_desc' = current_desc
             /\ devices' = devices]_vars

\* a listing failed after an empty enumeration although a device has been
\* attached since
C12_Witness ==
    /\ last.op = "ccid_calculate_all"
    /\ refreshed.called
    /\ refreshed.fps = <<>>
    /\ attached # <<>>
    /\ Failed(last)
    /\ last.opened = 0

\* the slots an otp_calculate_all call was told are in use
SlotsInUse(rec) ==
    {slot \in {1, 2} : IF slot = 1 THEN rec.args.slot1_in_use
                                   ELSE rec.args.slot2_in_use}

\* the driver was challenged on the slot and answered with one of errnos
\* (0: it returned a code)
Probed(rec, slot, errnos) ==
    \E i \in CallsOf(rec, {SlotName(slot)}) :
       /\ rec.calls[i].errno \in errnos
       /\ rec.calls[i].errno = 0 => rec.calls[i].sw = 0

\* the entries of a result that are about the slot
EntriesOf(rec, slot) ==
    {i \in DOMAIN rec.result.payload :
        rec.result.payload[i].credential.key = SlotName(slot)}

C14_NoSpaceOnAbortedOrFull ==
    last.op = "ccid_add_credential"
    => \A i \in CallsOf(last, {"put"}) :
          IF last.calls[i].sw \in {SW_COMMAND_ABORTED, SW_NO_SPACE}
          THEN last.result = Failure("no_space")
          ELSE last.result # Failure("no_space")

\* an unlocked store answered put with "command aborted"
C14_Witness ==
    /\ last.op = "ccid_add_credential"
    /\ \E i \in CallsOf(last, {"put"}) :
          last.calls[i].sw = SW_COMMAND_ABORTED
    /\ last.result = Failure("no_space")

\* the credentials of a device listing that are not hidden, in its order
RECURSIVE NotHiddenOf(_)
NotHiddenOf(held) ==
    IF held = <<>> THEN <<>>
    ELSE (IF IsHidden(Head(held)) THEN <<>> ELSE <<Head(held)>>)
         \o NotHiddenOf(Tail(held))

\* C15: the entries of a successful ccid_calculate_all are the device's pairs
\* whose credential is not hidden, in the device's order; ccid_calculate and
\* ccid_delete_credential given a hidden credential pass it to the device,
\* fail only when the session or a device call fails, and succeed when the
\* device carries the call out.
C15_HiddenFilteredFromListingOnly ==
    /\ (last.op = "ccid_calculate_all" /\ Succeeded(last))
       => /\ Len(last.result.payload) = Len(NotHiddenOf(last.args.held))
          /\ \A i \in DOMAIN last.result.payload :
                /\ last.result.payload[i].credential
                      = NotHiddenOf(last.args.held)[i]
                /\ ~IsHidden(last.result.payload[i].credential)
    /\ (/\ last.op \in {"ccid_calculate", "ccid_delete_credential"}
        /\ IsHidden(last.args.credential))
       => LET asked == CallsOf(last, {"calculate", "delete"}) IN
          /\ (\E i \in asked : last.calls[i].sw = 0)
             => /\ Succeeded(last)
                /\ last.op = "ccid_calculate"
                   => last.result.payload
                        = <<pair_to_dict(last.args.credential)>>
          /\ ~Succeeded(last)
             => \/ last.sid = 0
                \/ \E i \in DOMAIN last.calls : last.calls[i].sw # 0

\* a listing of a store that holds a hidden credential before a visible one
C15_Witness ==
    /\ last.op = "ccid_calculate_all"
    /\ Succeeded(last)
    /\ last.args.held = <<"_hidden:b", "a">>
    /\ Len(last.result.payload) = 1

\* a hidden credential was computed when referenced by its key
C15_WitnessHiddenCalculated ==
    /\ last.op = "ccid_calculate"
    /\ IsHidden(last.args.credential)
    /\ Succeeded(last)

\* the codes of a slot-path result
SlotCodes(rec) ==
    {rec.result.payload[i].code[1] :
        i \in {j \in DOMAIN rec.result.payload :
                  rec.result.payload[j].code # <<>>}}

\* a <= b on times
BigLeq(a, b) == a.hi < b.hi \/ (a.hi = b.hi /\ a.lo <= b.lo)

\* timestamp - (timestamp mod 30)
WindowStart(timestamp) == BigMinus(timestamp, BigMod30(timestamp))

C16_WitnessCapped ==
    /\ last.op = "otp_calculate"
    /\ Succeeded(last)
    /\ \E code \in SlotCodes(last) :
          /\ code.valid_from = Big(99999, 99990)
          /\ code.valid_to = Big(99999, 99999)

\* C17: ccid_reset presents no key to the store, cached or stored, and when
\* the session opens and the device carries the reset out it returns success,
\* on a locked store with no key cached and none stored as on any other.
C17_ResetNeverUnlocks ==
    [][last'.op = "ccid_reset"
       => /\ CallsOf(last', {"validate"}) = {}
          /\ \A i \in DOMAIN last'.calls : last'.calls[i].key = NoKey
          /\ (last'.sid # 0 /\ last'.fault = "none")
             => /\ Succeeded(last')
                /\ \E i \in CallsOf(last', {"reset"}) : last'.calls[i].sw = 0
                /\ ~Locked(current_desc)']_vars

\* a locked store was reset with no key cached and none stored
C17_Witness ==
    /\ last.op = "ccid_reset"
    /\ last.args.locked
    /\ current_key = NoKey
    /\ DOMAIN settings = {}
    /\ DOMAIN stored = {}
    /\ Succeeded(last)

\* C18: a successful ccid_validate with remember stores a text that decodes
\* to the key derived from the password; a process that has cached no key and
\* holds the stored mapping, running a protected operation on the locked
\* store, presents exactly the decoded key, which is a key derived from a
\* password, the store accepts it and the protected call is answered as to
\* an unlocked session.
C18_StoredKeyUnlocksAfterRestart ==
    [][/\ (last'.op = "ccid_validate" /\ last'.remember /\ Succeeded(last'))
          => \E i \in CallsOf(last', {"validate"}) :
                /\ last'.calls[i].sw = 0
                /\ last'.calls[i].key \in DeviceKeys(current_desc)
                /\ a2b_hex(stored'[last'.sid]) = last'.calls[i].key
       /\ (/\ last'.op \in ProtectedOps
           /\ last'.sid # 0
           /\ last'.fault = "none"
           /\ Locked(current_desc)
           /\ current_key = NoKey
           /\ settings = stored
           /\ StoreId(current_desc) \in DOMAIN stored)
          => /\ \E i \in CallsOf(last', {"validate"}) :
                   /\ last'.calls[i].key
                         = a2b_hex(stored[StoreId(current_desc)])
                   /\ last'.calls[i].key \in DeviceKeys(current_desc)
                   /\ b2a_hex(last'.calls[i].key)
                         = stored[StoreId(current_desc)]
                   /\ last'.calls[i].sw = 0
             /\ \E i \in CallsOf(last', ProtectedCalls) :
                   last'.calls[i].sw # SW_SECURITY_CONDITION_NOT_SATISFIED
             /\ last'.result # Failure("access_denied")]_vars

\* a listing unlocked with the stored key by a process that cached none
C18_Witness ==
    /\ last.op = "ccid_calculate_all"
    /\ Succeeded(last)
    /\ current_key = NoKey
    /\ last.sid \in DOMAIN stored
    /\ \E i \in CallsOf(last, {"validate"}) :
          /\ last.calls[i].sw = 0
          /\ last.calls[i].key = a2b_hex(stored[last.sid])

\* C19: whenever refresh_devices returns success, its device list has one
\* entry per descriptor enumerated now, in enumeration order, with the
\* fingerprints of the enumeration.
C19_DeviceListMatchesEnumeration ==
    (last.op = "refresh_devices" /\ Succeeded(last))
    => /\ Len(last.result.payload) = Len(attached)
       /\ \A i \in DOMAIN last.result.payload :
             last.result.payload[i].fingerprint = attached[i]

\* C20: a successful otp_calculate_all has exactly one entry per in-use slot,
\* slot 1 before slot 2, and none for a slot not in use; when the probe of an
\* in-use slot fails with an error other than would-block the result is a
\* failure envelope, which carries no entries, also when the other slot's
\* code had been computed.
C20_SlotListingAllOrNothing ==
    last.op = "otp_calculate_all"
    => /\ Succeeded(last)
          => /\ Len(last.result.payload) = Cardinality(SlotsInUse(last))
             /\ \A slot \in {1, 2} :
                   Cardinality(EntriesOf(last, slot))
                     = IF slot \in SlotsInUse(last) THEN 1 ELSE 0
             /\ \A i \in EntriesOf(last, 1), j \in EntriesOf(last, 2) : i < j
       /\ (\E slot \in SlotsInUse(last) :
              \E i \in CallsOf(last, {SlotName(slot)}) :
                 last.calls[i].errno \notin {0, ERRNO_WOULD_BLOCK})
          => /\ Failed(last)
             /\ last.result.payload = <<>>

\* slot 1 gave its code and the probe of slot 2 failed: nothing is returned
C20_Witness ==
    /\ last.op = "otp_calculate_all"
    /\ Probed(last, 1, {0})
    /\ Probed(last, 2, {ERRNO_WRITE})
    /\ Failed(last)
    /\ last.result.payload = <<>>

====
